---- MODULE Spec2Model ----
(***************************************************************************)
(* A model of the SIC linux-server: the WebSocket dispatcher and pairing   *)
(* handler of backend/main.py and the file-transfer manager of             *)
(* backend/filetransfer.py.                                                *)
(*                                                                         *)
(* Spec          the dispatcher: connections, pairing, notifications.      *)
(* SpecTransfer  the transfer manager: prepare, chunks, cancel, cleanup.   *)
(***************************************************************************)
EXTENDS Integers, Sequences, FiniteSets, TLC

VARIABLES
    PAIRING_CODE,        \* main.py:81   the module global
    pairing_code_file,   \* main.py:63   contents of .pairing_code
    PAIRED_DEVICES,      \* main.py:83   device_id -> {name, type, paired_at}
    paired_devices_file, \* main.py:84   contents of .paired_devices
    active_connections,  \* main.py:105  the dict, as its entries in insertion order
    pc,                  \* per websocket: where its websocket_endpoint coroutine is
    connection_id,       \* per websocket: the local of websocket_endpoint (main.py:206)
    hl,                  \* per websocket: the locals of the handler that is suspended
    ev,                  \* the step that was taken last (observation only)
    sent,                \* the send_text calls that returned in the last step
    used_codes,          \* codes a pairing_request has succeeded with (observation only)
    raced_codes,         \* codes two overlapping pairings have succeeded with (observation only)
    now,                 \* time.time(): the clock, which advances with every frame received
    active_transfers,    \* filetransfer.py:29
    transfer_callbacks,  \* filetransfer.py:30
    fs,                  \* the files the transfers read and write: path -> size
    cleanup_tasks,       \* pending _cleanup_transfer tasks per file_id
    next_oid,            \* number of FileTransfer objects constructed so far
    seen_ids,            \* file ids that have been in active_transfers
    nops,                \* number of transfer-manager calls and timer expiries so far
    tev,                 \* the transfer operation that was taken last (observation only)
    inflight,            \* the process_file_chunk call that has begun and not returned: its locals and position
    crypt,               \* an encrypt_file_chunk call followed by decrypt_file_chunk: arguments, position, results
    clipboard,           \* the system clipboard (pyperclip): its text
    clipboard_last_sync, \* clipboard.py:16 _clipboard_last_sync, the marker
    clipboard_callback,  \* clipboard.py:18: whether a callback is registered
    should_monitor,      \* clipboard.py:20 _should_monitor
    mon,                 \* position of the thread that runs _monitor_clipboard
    last_content,        \* local of _monitor_clipboard
    current_content,     \* local of _monitor_clipboard
    clip_src,            \* who wrote the clipboard last: "sync" or "user" (observation only)
    clip_fresh,          \* the clipboard was written and the thread has not read it yet (observation only)
    cur_src,             \* clip_src when current_content was read (observation only)
    cur_fresh,           \* clip_fresh when current_content was read (observation only)
    last_suppressed,     \* the content of the last poll that matched the marker (observation only)
    cev,                 \* the clipboard step that was taken last (observation only)
    scheduled,           \* serve.py:64  the coroutines given to run_coroutine_threadsafe, with their loop
    marker_copy          \* what became of the value the last sync write copied (observation only)

srvVars == <<PAIRING_CODE, pairing_code_file, PAIRED_DEVICES, paired_devices_file,
             active_connections, pc, connection_id, hl, now, ev, sent,
             used_codes, raced_codes>>
xferVars == <<active_transfers, transfer_callbacks, fs, cleanup_tasks, next_oid,
              seen_ids, nops, tev, inflight, crypt>>
clipVars == <<clipboard, clipboard_last_sync, clipboard_callback, should_monitor, mon,
              last_content, current_content, clip_src, clip_fresh, cur_src, cur_fresh,
              last_suppressed, cev, scheduled, marker_copy>>
vars == <<srvVars, xferVars, clipVars>>

(***************************************************************************)
(* Bounds of the model.                                                    *)
(***************************************************************************)
MaxFrames == 3

None == "None"

\* the websockets, named in the order in which they connect
ConnSeq == <<"w1", "w2", "w3">>
Conns == {ConnSeq[i] : i \in 1..Len(ConnSeq)}
DeviceIds == {"d1", "d2"}
DeviceInputs == DeviceIds
NameInputs == {"phone"}
Codes == {"AAAAAA", "BBBBBB"}
\* what .pairing_code may hold at startup, and what random.choices may draw:
\* the codes are interchangeable, one stands for the draw
StoredCodes == {None, "", "XYZ", "AAAAAA"}
DrawnCodes == {"AAAAAA"}
PAIRING_CODE_LENGTH == 6

(***************************************************************************)
(* The dict active_connections.  A Python dict keeps its entries in        *)
(* insertion order: assigning to a present key keeps the entry's place, a  *)
(* new key is appended, del removes the entry.                             *)
(***************************************************************************)
DictKeys(d) == {d[i].key : i \in 1..Len(d)}

DictIndex(d, k) == CHOOSE i \in 1..Len(d) : d[i].key = k

DictSet(d, k, w) ==
    IF k \in DictKeys(d)
    THEN [i \in 1..Len(d) |-> IF d[i].key = k THEN [key |-> k, ws |-> w] ELSE d[i]]
    ELSE Append(d, [key |-> k, ws |-> w])

DictDel(d, k) == SelectSeq(d, LAMBDA e : e.key # k)

\* str(id(websocket)), main.py:116
TempId(w) == "id_" \o w

KeysOf(w) == {active_connections[i].key :
                 i \in {j \in 1..Len(active_connections) : active_connections[j].ws = w}}

(***************************************************************************)
(* Frames.  A frame is the text the peer sent: text json.loads rejects     *)
(* ("garbage"), JSON that is not an object ("nonobject": data.get raises), *)
(* or an object, of which the fields the handlers read are kept.  A field  *)
(* the object does not carry is None, as data.get returns it.              *)
(***************************************************************************)
Frame(kind, type, code, did, name, dtype, ntype, message) ==
    [kind |-> kind, type |-> type, code |-> code, device_id |-> did,
     device_name |-> name, device_type |-> dtype,
     notification_type |-> ntype, message |-> message,
     text |-> None, action |-> None, file_id |-> None]

NoFrame == Frame("none", None, None, None, None, None, None, None)

PairingFrames ==
    {Frame("object", "pairing_request", c, d, n, "android", None, None) :
        c \in Codes \cup {None}, d \in DeviceInputs, n \in NameInputs}

NotificationFrames ==
    {Frame("object", "notification", None, None, None, None, "sms", "hello"),
     Frame("object", "notification", None, None, None, None, None, "hello"),
     Frame("object", "notification", None, None, None, None, "sms", "")}

\* clipboard_sync frames: device_id and text
ClipboardFrames ==
    {[Frame("object", "clipboard_sync", None, d, None, None, None, None)
         EXCEPT !.text = "a"] : d \in DeviceIds}

\* file_transfer_init and file_transfer_chunk frames, of which file_id is kept
TransferFrames ==
    {[Frame("object", t, None, None, None, None, None, None)
         EXCEPT !.file_id = "f1"] : t \in {"file_transfer_init", "file_transfer_chunk"}}

\* the actions the desktop application sends in admin_request frames
AdminActions ==
    {"get_status", "get_devices", "send_file", "unpair_device", "cancel_transfer",
     "set_setting"}

AdminFrames ==
    {[Frame("object", "admin_request", None, None, None, None, None, None)
         EXCEPT !.action = a] : a \in AdminActions}

\* a ping, a frame of a type nothing handles, and a frame without a type
OtherFrames ==
    {Frame("object", t, None, None, None, None, None, None) : t \in {"ping", "bogus", None}}

BadFrames ==
    {Frame(k, None, None, None, None, None, None, None) : k \in {"garbage", "nonobject"}}

Frames ==
    PairingFrames \cup NotificationFrames \cup ClipboardFrames \cup TransferFrames
        \cup AdminFrames \cup OtherFrames \cup BadFrames

\* Python truthiness of a value read from a frame
Truthy(v) == v # None /\ v # ""

\* data.get(key, default)
GetOr(v, default) == IF v = None THEN default ELSE v

(***************************************************************************)
(* Messages the server sends.                                              *)
(***************************************************************************)
PairingSuccess(did, name, dtype) ==
    [type |-> "pairing_response", status |-> "success", device_id |-> did,
     device_name |-> name, device_type |-> dtype]

PairingFailed ==
    [type |-> "pairing_response", status |-> "failed", reason |-> "Invalid pairing code"]

Pong == [type |-> "pong"]

NotificationMsg(ntype, message) ==
    [type |-> "notification", notification_type |-> ntype, message |-> message]

\* every value a message carries
MsgValues(m) == {m[f] : f \in DOMAIN m}

(***************************************************************************)
(* Locals of a suspended handler.                                          *)
(***************************************************************************)
NoLocals == [device_id |-> None, code |-> None, msg |-> Pong, exclude |-> None,
             size |-> 0, pos |-> 0, target |-> None]

\* the last step: the operation, the websocket whose coroutine took it, the
\* type and code of the frame it received (if it received one), the outcome
Event(op, w, frame, out) ==
    [op |-> op, conn |-> w, kind |-> frame.kind, type |-> frame.type,
     code |-> frame.code, out |-> out]

\* load_pairing_code: the stored code if the file holds one of the right
\* length, a fresh random draw (written to the file) otherwise
CodeLen(c) == IF c \in Codes THEN PAIRING_CODE_LENGTH ELSE 3

load_pairing_code(file, drawn) ==
    IF file # None /\ file # "" /\ CodeLen(file) = PAIRING_CODE_LENGTH
    THEN [code |-> file, file |-> file]
    ELSE [code |-> drawn, file |-> drawn]

SrvInit ==
    /\ \E file \in StoredCodes, drawn \in DrawnCodes :
          /\ PAIRING_CODE = load_pairing_code(file, drawn).code
          /\ pairing_code_file = load_pairing_code(file, drawn).file
    /\ PAIRED_DEVICES = <<>>
    /\ paired_devices_file = <<>>
    /\ active_connections = <<>>
    /\ pc = [w \in Conns |-> "new"]
    /\ connection_id = [w \in Conns |-> None]
    /\ hl = [w \in Conns |-> NoLocals]
    /\ ev = Event("init", None, NoFrame, None)
    /\ sent = {}
    /\ now = 0
    /\ used_codes = {}
    /\ raced_codes = {}

(***************************************************************************)
(* ConnectionManager                                                       *)
(***************************************************************************)
\* the key connect() registers the websocket under
ConnectKey(paired, w, did) ==
    IF Truthy(did) /\ did \in DOMAIN paired THEN did ELSE TempId(w)

\* what connect() returns: device_id or temp_id
ConnectReturn(w, did) == IF Truthy(did) THEN did ELSE TempId(w)

\* an iterator over the dict that is suspended in a broadcast stays on the
\* entry it reached when an entry before it is deleted
IterAfterDel(h, d, k) ==
    [w \in Conns |->
        IF pc[w] = "bcast" /\ k \in DictKeys(d) /\ DictIndex(d, k) <= h[w].pos
        THEN [h[w] EXCEPT !.pos = @ - 1]
        ELSE h[w]]

\* variant of disconnect that empties the table
disconnect_clear(d, k) == IF k \in DictKeys(d) THEN <<>> ELSE d

\* manager.disconnect(connection_id)
disconnect(d, k) == IF k \in DictKeys(d) THEN DictDel(d, k) ELSE d

\* a send_text to websocket w can return only while w's connection is open
CanSend(w) == pc[w] \notin {"new", "ended"}

\* the first entry after pos that broadcast sends to (0: none is left)
NextSendPos(d, pos, exclude) ==
    LET S == {i \in (pos + 1)..Len(d) : d[i].key # exclude}
    IN  IF S = {} THEN 0 ELSE CHOOSE i \in S : \A j \in S : i <= j

\* websocket_endpoint, line 206: manager.connect(websocket)
Connect(w) ==
    /\ pc[w] = "new"
    /\ \A i \in 1..Len(ConnSeq) : \A j \in 1..(i - 1) :
          ConnSeq[i] = w => pc[ConnSeq[j]] # "new"
    /\ \E accepted \in BOOLEAN :
          IF accepted
          THEN /\ active_connections' =
                     DictSet(active_connections, ConnectKey(PAIRED_DEVICES, w, None), w)
               /\ connection_id' = [connection_id EXCEPT ![w] = ConnectReturn(w, None)]
               /\ pc' = [pc EXCEPT ![w] = "recv"]
               /\ ev' = Event("connect", w, NoFrame, "accepted")
          ELSE /\ UNCHANGED <<active_connections, connection_id>>
               /\ pc' = [pc EXCEPT ![w] = "ended"]
               /\ ev' = Event("connect", w, NoFrame, "raised")
    /\ sent' = {}
    /\ UNCHANGED <<PAIRING_CODE, pairing_code_file, PAIRED_DEVICES, paired_devices_file,
                   hl, now, used_codes, raced_codes>>

\* the except clauses of websocket_endpoint: manager.disconnect(connection_id),
\* and the coroutine returns
EndLoop(w, op, frame, out) ==
    /\ active_connections' = disconnect(active_connections, connection_id[w])
    /\ hl' = [IterAfterDel(hl, active_connections, connection_id[w]) EXCEPT ![w] = NoLocals]
    /\ pc' = [pc EXCEPT ![w] = "ended"]
    /\ ev' = Event(op, w, frame, out)

\* receive_text raises WebSocketDisconnect
Disconnect(w) ==
    /\ pc[w] = "recv"
    /\ EndLoop(w, "disconnect", NoFrame, "closed")
    /\ sent' = {}
    /\ UNCHANGED <<PAIRING_CODE, pairing_code_file, PAIRED_DEVICES, paired_devices_file,
                   connection_id, now, used_codes, raced_codes>>

(***************************************************************************)
(* handle_pairing                                                          *)
(***************************************************************************)
\* the record handle_pairing stores for the device
DeviceRecord(f, t) ==
    [name |-> GetOr(f.device_name, "Unknown Device"),
     type |-> GetOr(f.device_type, "unknown"),
     paired_at |-> t]

\* variant of the test that accepts every code
CodeMatches_any(f, code) == TRUE

\* the test of line 241
CodeMatches(f, code) == f.code = code

\* PAIRED_DEVICES[device_id] = {...}
StoreDevice(paired, f, t) == (f.device_id :> DeviceRecord(f, t)) @@ paired

\* lines 241-261, up to the return of send_text (delivered) or its raising;
\* save_paired_devices is taken to write the file
OverlapsPairing(w, f) ==
    \E v \in Conns \ {w} :
        /\ pc[v] \in {"pair_disconnect", "pair_accept"}
        /\ hl[v].code = f.code
        /\ hl[v].device_id # f.device_id

HandlePairing(w, f, delivered) ==
    IF CodeMatches(f, PAIRING_CODE)
    THEN /\ PAIRED_DEVICES' = StoreDevice(PAIRED_DEVICES, f, now)
         /\ used_codes' = IF delivered THEN used_codes \cup {f.code} ELSE used_codes
         /\ raced_codes' = IF delivered /\ OverlapsPairing(w, f)
                           THEN raced_codes \cup {f.code} ELSE raced_codes
         /\ paired_devices_file' = PAIRED_DEVICES'
         /\ IF delivered
            THEN /\ sent' = {[to |-> w,
                              msg |-> PairingSuccess(f.device_id,
                                         GetOr(f.device_name, "Unknown Device"),
                                         GetOr(f.device_type, "unknown"))]}
                 /\ pc' = [pc EXCEPT ![w] = "pair_disconnect"]
                 /\ hl' = [hl EXCEPT ![w] = [NoLocals EXCEPT !.device_id = f.device_id,
                                                           !.code = f.code]]
                 /\ ev' = Event("receive", w, f, "pairing_success")
                 /\ UNCHANGED active_connections
            ELSE /\ sent' = {}
                 /\ EndLoop(w, "receive", f, "pairing_success_send_raised")
    ELSE /\ UNCHANGED <<PAIRED_DEVICES, paired_devices_file, used_codes, raced_codes>>
         /\ IF delivered
            THEN /\ sent' = {[to |-> w, msg |-> PairingFailed]}
                 /\ ev' = Event("receive", w, f, "pairing_failed")
                 /\ UNCHANGED <<active_connections, pc, hl>>
            ELSE /\ sent' = {}
                 /\ EndLoop(w, "receive", f, "pairing_failed_send_raised")

\* line 264: manager.disconnect(connection_id), then connect() is entered
\* and awaits websocket.accept()
PairingDisconnect(w) ==
    /\ pc[w] = "pair_disconnect"
    /\ active_connections' = disconnect(active_connections, connection_id[w])
    /\ hl' = IterAfterDel(hl, active_connections, connection_id[w])
    /\ pc' = [pc EXCEPT ![w] = "pair_accept"]
    /\ ev' = Event("pairing_disconnect", w, NoFrame, None)
    /\ sent' = {}
    /\ UNCHANGED <<PAIRING_CODE, pairing_code_file, PAIRED_DEVICES, paired_devices_file,
                   connection_id, now, used_codes, raced_codes>>

\* line 265: the rest of manager.connect(websocket, device_id).  accept() on
\* a websocket that is already accepted is the framework's to allow or to
\* refuse; when it raises, the exception ends the receive loop.
PairingConnect(w) ==
    /\ pc[w] = "pair_accept"
    /\ \E accepted \in BOOLEAN :
          IF accepted
          THEN /\ active_connections' =
                     DictSet(active_connections,
                             ConnectKey(PAIRED_DEVICES, w, hl[w].device_id), w)
               /\ hl' = [hl EXCEPT ![w] = NoLocals]
               /\ pc' = [pc EXCEPT ![w] = "recv"]
               /\ ev' = Event("pairing_connect", w, NoFrame, "accepted")
          ELSE EndLoop(w, "pairing_connect", NoFrame, "raised")
    /\ sent' = {}
    /\ UNCHANGED <<PAIRING_CODE, pairing_code_file, PAIRED_DEVICES, paired_devices_file,
                   connection_id, now, used_codes, raced_codes>>

(***************************************************************************)
(* handle_notification and ConnectionManager.broadcast                     *)
(***************************************************************************)
\* the loop of broadcast runs from the entry after pos to its next send_text,
\* where the coroutine is suspended, or to the end of the dict
BroadcastRun(w, msg, exclude, size, pos, op, f) ==
    LET p == NextSendPos(active_connections, pos, exclude)
    IN  IF p = 0
        THEN /\ pc' = [pc EXCEPT ![w] = "recv"]
             /\ hl' = [hl EXCEPT ![w] = NoLocals]
             /\ ev' = Event(op, w, f, "broadcast_done")
        ELSE /\ pc' = [pc EXCEPT ![w] = "bcast"]
             /\ hl' = [hl EXCEPT ![w] = [NoLocals EXCEPT !.msg = msg, !.exclude = exclude,
                                             !.size = size, !.pos = p,
                                             !.target = active_connections[p].ws]]
             /\ ev' = Event(op, w, f, "broadcast_sending")

\* lines 287-302
HandleNotification(w, f) ==
    /\ sent' = {}
    /\ UNCHANGED <<PAIRED_DEVICES, paired_devices_file, active_connections,
                   used_codes, raced_codes>>
    /\ IF ~Truthy(f.notification_type) \/ ~Truthy(f.message)
       THEN /\ ev' = Event("receive", w, f, "invalid_notification")
            /\ UNCHANGED <<pc, hl>>
       ELSE BroadcastRun(w, NotificationMsg(f.notification_type, f.message),
                         connection_id[w], Len(active_connections), 0, "receive", f)

\* lines 128-134 after send_text returned (delivered) or raised: the
\* exception is logged and the for loop asks the dict iterator for the next
\* entry
AfterSend(w, delivered) ==
    IF Len(active_connections) # hl[w].size
    THEN /\ pc' = [pc EXCEPT ![w] = "recv"]
         /\ hl' = [hl EXCEPT ![w] = NoLocals]
         /\ ev' = Event("broadcast", w, NoFrame, "dict_changed_size")
    ELSE BroadcastRun(w, hl[w].msg, hl[w].exclude, hl[w].size, hl[w].pos,
                      "broadcast", NoFrame)

\* send_text of line 131 returns or raises (the exception is logged), and the
\* loop goes on: the dict iterator raises RuntimeError when the dict's size
\* is not the one it started with, which handle_notification catches
BroadcastResume(w) ==
    /\ pc[w] = "bcast"
    /\ \E delivered \in {b \in BOOLEAN : b => CanSend(hl[w].target)} :
          sent' = IF delivered THEN {[to |-> hl[w].target, msg |-> hl[w].msg]} ELSE {}
    /\ AfterSend(w, sent' # {})
    /\ UNCHANGED <<PAIRING_CODE, pairing_code_file, PAIRED_DEVICES, paired_devices_file,
                   active_connections, connection_id, now, used_codes, raced_codes>>

(***************************************************************************)
(* websocket_endpoint: one frame is received and dispatched                *)
(***************************************************************************)
\* the types websocket_endpoint has a branch for
DispatchedTypes ==
    {"pairing_request", "clipboard_sync", "notification", "file_transfer_init",
     "file_transfer_chunk", "ping"}

\* variant of the else branch that answers the sender with an error frame
UnknownType_reply(w, f) ==
    /\ ev' = Event("receive", w, f, "unknown_type")
    /\ sent' = {[to |-> w, msg |-> [type |-> "error", reason |-> "Unknown message type"]]}
    /\ UNCHANGED <<PAIRED_DEVICES, paired_devices_file, active_connections,
                   pc, hl, used_codes, raced_codes>>

\* the else branch, lines 228-229: logger.warning("Unknown message type")
UnknownType(w, f) ==
    /\ ev' = Event("receive", w, f, "unknown_type")
    /\ sent' = {}
    /\ UNCHANGED <<PAIRED_DEVICES, paired_devices_file, active_connections,
                   pc, hl, used_codes, raced_codes>>

\* variant in which a frame is taken while a handler of the connection is
\* suspended
Receiving_any(w) == pc[w] \notin {"new", "ended"}

\* the coroutine of w is at line 210, await websocket.receive_text(): the
\* loop gets there only when the handler it awaited has returned
Receiving(w) == pc[w] = "recv"

Receive(w, f) ==
    /\ Receiving(w)
    /\ now < MaxFrames
    /\ now' = now + 1
    /\ UNCHANGED <<PAIRING_CODE, pairing_code_file, connection_id>>
    /\ CASE f.kind # "object" ->
                \* json.loads or data.get raises: except Exception
                /\ EndLoop(w, "receive", f, "exception")
                /\ sent' = {}
                /\ UNCHANGED <<PAIRED_DEVICES, paired_devices_file, used_codes, raced_codes>>
         [] f.kind = "object" /\ f.type = "pairing_request" ->
                \E delivered \in BOOLEAN : HandlePairing(w, f, delivered)
         [] f.kind = "object" /\ f.type = "notification" ->
                HandleNotification(w, f)
         [] f.kind = "object" /\ f.type \in {"clipboard_sync", "file_transfer_init",
                                              "file_transfer_chunk"} ->
                \* handle_clipboard, handle_file_transfer_init and
                \* handle_file_transfer_chunk only log
                /\ ev' = Event("receive", w, f, "not_implemented")
                /\ sent' = {}
                /\ UNCHANGED <<PAIRED_DEVICES, paired_devices_file, active_connections,
                               pc, hl, used_codes, raced_codes>>
         [] f.kind = "object" /\ f.type = "ping" ->
                /\ UNCHANGED <<PAIRED_DEVICES, paired_devices_file, used_codes, raced_codes>>
                /\ \E delivered \in BOOLEAN :
                      IF delivered
                      THEN /\ sent' = {[to |-> w, msg |-> Pong]}
                           /\ ev' = Event("receive", w, f, "pong")
                           /\ UNCHANGED <<active_connections, pc, hl>>
                      ELSE /\ sent' = {}
                           /\ EndLoop(w, "receive", f, "pong_send_raised")
         [] OTHER -> UnknownType(w, f)



(***************************************************************************)
(* filetransfer.py                                                         *)
(*                                                                         *)
(* A file is its size; a path that names no file maps to Absent.  A file   *)
(* handle is the position of an open file, NoHandle when the transfer has  *)
(* none.                                                                   *)
(***************************************************************************)
\* file sizes run to MaxSize; chunk sizes and chunk indices run as far
MaxSize == 2
MaxChunk == MaxSize
MaxIndex == MaxSize
MaxOps == 4
MaxFairOps == 3

Absent == -1
NoHandle == -1

FileIds == {"f1", "f2"}
FileNames == {"a.txt"}
UploadPaths == {"src.bin", "gone.bin"}

\* DEFAULT_DOWNLOAD_DIR / f"{stem} ({counter}){suffix}"; counter 0 is the
\* name itself
SavePath(name, counter) == [name |-> name, n |-> counter]

DownloadPaths == {SavePath(nm, k) : nm \in FileNames, k \in 0..(MaxOps + 1)}
Paths == {SavePath(p, 0) : p \in UploadPaths} \cup DownloadPaths

Exists(files, path) == files[path] # Absent

\* FileTransfer.__init__
FileTransfer(oid, path, name, size, direction) ==
    [oid |-> oid, file_path |-> path, file_name |-> name, file_size |-> size,
     direction |-> direction, bytes_transferred |-> 0, status |-> "initializing",
     file_handle |-> NoHandle]

\* FileTransfer.open_file; opened: open() returned.  Mode "wb" creates or
\* truncates the file, mode "rb" needs it to exist.
OpenSucceeds(t, files, opened) ==
    opened /\ (t.direction = "upload" => Exists(files, t.file_path))

open_file(t, files, opened) ==
    IF OpenSucceeds(t, files, opened)
    THEN [t EXCEPT !.file_handle = 0, !.status = "in_progress"]
    ELSE [t EXCEPT !.status = "failed"]

FilesAfterOpen(t, files, opened) ==
    IF OpenSucceeds(t, files, opened) /\ t.direction = "download"
    THEN [files EXCEPT ![t.file_path] = 0]
    ELSE files

\* FileTransfer.close_file
close_file(t) == [t EXCEPT !.file_handle = NoHandle]

\* variant of update_progress: self.bytes_transferred = bytes_chunk
update_progress_assign(t, bytes_chunk) ==
    [t EXCEPT !.bytes_transferred = bytes_chunk]

\* FileTransfer.update_progress
update_progress(t, bytes_chunk) ==
    [t EXCEPT !.bytes_transferred = @ + bytes_chunk]

\* os.path.exists and os.remove, errors swallowed
RemoveFile(files, path) == [files EXCEPT ![path] = Absent]

\* asyncio.create_task(_cleanup_transfer(file_id))
Schedule(tasks, f) == [tasks EXCEPT ![f] = @ + 1]

Terminal(st) == st \in {"completed", "failed", "canceled"}

\* chunk_index and chunk_size are those of a read_file_chunk call that
\* returned data, chunk_size also that of the descriptor
\* prepare_upload_transfer returned, 0 otherwise
TEvent(op, f, out) ==
    [op |-> op, file_id |-> f, out |-> out, chunk_index |-> 0, chunk_size |-> 0]

(***************************************************************************)
(* The chunk cipher (filetransfer.py:121-184).  A byte is a number in      *)
(* 0..255, a chunk, a key and an iv are sequences of bytes.  AES itself is *)
(* the library's: it is taken as what it is specified to be, a permutation *)
(* of the 16-byte blocks for each key, with the decryptor its inverse, and *)
(* stands here as a keyed substitution and rotation of the block's bytes.  *)
(* The PKCS7 padding, the CBC chaining and the fallback of                 *)
(* decrypt_file_chunk are written out as the code runs them.               *)
(***************************************************************************)
\* algorithms.AES.block_size is 128 bits
BLOCK_SIZE == 16
\* os.urandom(32), os.urandom(16)
KEY_SIZE == 32
IV_SIZE == 16

\* chunks run to MaxChunkLen bytes: two blocks and the start of a third
MaxChunkLen == 33

RECURSIVE XorBits(_, _, _)
XorBits(a, b, n) ==
    IF n = 0 THEN 0
    ELSE ((a + b) % 2) + 2 * XorBits(a \div 2, b \div 2, n - 1)

XorBlock(x, y) == [i \in 1..BLOCK_SIZE |-> XorBits(x[i], y[i], 8)]

\* the block cipher under a key, and its inverse
EncryptBlock(key, blk) ==
    [i \in 1..BLOCK_SIZE |->
        (blk[(i % BLOCK_SIZE) + 1] + key[i] + key[i + BLOCK_SIZE]) % 256]

DecryptBlock(key, blk) ==
    [j \in 1..BLOCK_SIZE |->
        LET i == ((j + BLOCK_SIZE - 2) % BLOCK_SIZE) + 1
        IN  (blk[i] + 512 - key[i] - key[i + BLOCK_SIZE]) % 256]

\* modes.CBC(iv): each block is mixed with the cipher block before it
RECURSIVE CBCEncrypt(_, _, _)
CBCEncrypt(key, iv, data) ==
    IF Len(data) = 0 THEN <<>>
    ELSE LET c == EncryptBlock(key, XorBlock(SubSeq(data, 1, BLOCK_SIZE), iv))
         IN  c \o CBCEncrypt(key, c, SubSeq(data, BLOCK_SIZE + 1, Len(data)))

RECURSIVE CBCDecrypt(_, _, _)
CBCDecrypt(key, iv, data) ==
    IF Len(data) = 0 THEN <<>>
    ELSE LET c == SubSeq(data, 1, BLOCK_SIZE)
         IN  XorBlock(DecryptBlock(key, c), iv)
                \o CBCDecrypt(key, c, SubSeq(data, BLOCK_SIZE + 1, Len(data)))

\* variant of the padder that adds nothing to a whole number of blocks
PKCS7Pad_short(chunk) ==
    IF Len(chunk) % BLOCK_SIZE = 0 THEN chunk
    ELSE LET n == BLOCK_SIZE - (Len(chunk) % BLOCK_SIZE)
         IN  chunk \o [i \in 1..n |-> n]

\* padder.update(chunk) + padder.finalize(): 1 to BLOCK_SIZE bytes, each the
\* number of bytes added
PKCS7Pad(chunk) ==
    LET n == BLOCK_SIZE - (Len(chunk) % BLOCK_SIZE)
    IN  chunk \o [i \in 1..n |-> n]

\* unpadder.finalize() raises ValueError unless the data end in a padding
PaddingValid(data) ==
    /\ Len(data) > 0
    /\ Len(data) % BLOCK_SIZE = 0
    /\ LET n == data[Len(data)]
       IN  /\ n \in 1..BLOCK_SIZE
           /\ \A i \in (Len(data) - n + 1)..Len(data) : data[i] = n

PKCS7Unpad(data) == SubSeq(data, 1, Len(data) - data[Len(data)])

encrypt_file_chunk(chunk, key, iv) == CBCEncrypt(key, iv, PKCS7Pad(chunk))

\* decryptor.finalize() raises ValueError, outside the try, when the data
\* are no whole number of blocks
DecryptRaises(encrypted_chunk) == Len(encrypted_chunk) % BLOCK_SIZE # 0

decrypt_file_chunk(encrypted_chunk, key, iv) ==
    LET padded_data == CBCDecrypt(key, iv, encrypted_chunk)
    IN  IF PaddingValid(padded_data) THEN PKCS7Unpad(padded_data)
        ELSE padded_data

\* the arguments the round trip is run with: chunks of every length up to
\* MaxChunkLen, among them those that end like a padding
FillBytes == {0, 16}
LastBytes == {1, 16, 255}
Seeds == {0, 37}
ChunkOf(n, fill, last) == [i \in 1..n |-> IF i = n THEN last ELSE fill]
KeyOf(seed) == [i \in 1..KEY_SIZE |-> (seed * i + 7) % 256]
IvOf(seed) == [i \in 1..IV_SIZE |-> (seed * i + 201) % 256]

CryptRun(chunk, key, iv) ==
    [chunk |-> chunk, key |-> key, iv |-> iv, at |-> "input",
     encrypted |-> <<>>, decrypted |-> <<>>, raised |-> FALSE]

\* no round trip is run
NoRun == [CryptRun(<<>>, <<>>, <<>>) EXCEPT !.at = "none"]

\* no process_file_chunk call is under way
NoCall == [file_id |-> None, n |-> 0, final |-> FALSE, at |-> "idle"]

XferTables ==
    /\ inflight = NoCall
    /\ active_transfers = <<>>
    /\ transfer_callbacks = {}
    /\ \E s \in 0..MaxSize :
          fs = [p \in Paths |-> IF p = SavePath("src.bin", 0) THEN s ELSE Absent]
    /\ cleanup_tasks = [f \in FileIds |-> 0]
    /\ next_oid = 0
    /\ seen_ids = {}
    /\ nops = 0
    /\ tev = TEvent("init", None, None)

XferInit == XferTables /\ crypt = NoRun

\* variant of the loop of lines 311-316 that takes the path it is given
UniquePath_plain(files, name, counter) == SavePath(name, counter)

\* the first free save path: the loop of lines 311-316
RECURSIVE UniquePath(_, _, _)
UniquePath(files, name, counter) ==
    IF Exists(files, SavePath(name, counter))
    THEN UniquePath(files, name, counter + 1)
    ELSE SavePath(name, counter)

\* "chunk_size": 65536 of the dictionary prepare_upload_transfer returns
UPLOAD_CHUNK_SIZE == 65536

\* the dictionary prepare_upload_transfer returns (key, iv and hash left out)
UploadDescriptor(f, t) ==
    [file_id |-> f, file_name |-> t.file_name, file_size |-> t.file_size,
     chunk_size |-> UPLOAD_CHUNK_SIZE]

\* variant of prepare_upload_transfer without the test of line 235
prepare_upload_transfer_nocheck(path) ==
    /\ \E f \in FileIds \ seen_ids :
          /\ active_transfers' =
                (f :> FileTransfer(next_oid, SavePath(path, 0), path,
                                   IF Exists(fs, SavePath(path, 0))
                                   THEN fs[SavePath(path, 0)] ELSE 0, "upload"))
                   @@ active_transfers
          /\ next_oid' = next_oid + 1
          /\ seen_ids' = seen_ids \cup {f}
          /\ tev' = [TEvent("prepare_upload", f, "ok")
                       EXCEPT !.chunk_size = UPLOAD_CHUNK_SIZE]
    /\ UNCHANGED <<transfer_callbacks, fs, cleanup_tasks>>

\* prepare_upload_transfer; generate_transfer_id draws an id never seen, and
\* the file is taken to be readable for the hash of lines 248-251
prepare_upload_transfer(path) ==
    /\ IF ~Exists(fs, SavePath(path, 0))
       THEN /\ tev' = TEvent("prepare_upload", None, "FileNotFoundError")
            /\ UNCHANGED <<active_transfers, next_oid, seen_ids>>
       ELSE \E f \in FileIds \ seen_ids :
               /\ active_transfers' =
                     (f :> FileTransfer(next_oid, SavePath(path, 0), path,
                                        fs[SavePath(path, 0)], "upload"))
                        @@ active_transfers
               /\ next_oid' = next_oid + 1
               /\ seen_ids' = seen_ids \cup {f}
               /\ tev' = [TEvent("prepare_upload", f, "ok")
                            EXCEPT !.chunk_size =
                               UploadDescriptor(f, active_transfers'[f]).chunk_size]
    /\ UNCHANGED <<transfer_callbacks, fs, cleanup_tasks>>

\* prepare_download_transfer; f, name, size: the fields of file_info (None
\* or 0 when missing), opened: open() returned
prepare_download_transfer(f, name, size, opened) ==
    /\ IF ~(Truthy(f) /\ Truthy(name) /\ size # 0)
       THEN /\ tev' = TEvent("prepare_download", f, "ValueError")
            /\ UNCHANGED <<active_transfers, fs, next_oid, seen_ids>>
       ELSE LET t == FileTransfer(next_oid, UniquePath(fs, name, 0), name, size,
                                  "download")
            IN  /\ next_oid' = next_oid + 1
                /\ fs' = FilesAfterOpen(t, fs, opened)
                /\ IF open_file(t, fs, opened).status = "failed"
                   THEN /\ tev' = TEvent("prepare_download", f, "IOError")
                        /\ UNCHANGED <<active_transfers, seen_ids>>
                   ELSE /\ active_transfers' = (f :> open_file(t, fs, opened))
                                                  @@ active_transfers
                        /\ seen_ids' = seen_ids \cup {f}
                        /\ tev' = TEvent("prepare_download", f, "ready")
    /\ UNCHANGED <<transfer_callbacks, cleanup_tasks>>


\* what a chunk operation leaves behind: the transfer, the files, whether a
\* cleanup task was created, and what the caller gets (a result or the
\* exception raised)
Outcome(t, files, sched, out) == [t |-> t, fs |-> files, sched |-> sched, out |-> out]

Max(a, b) == IF a >= b THEN a ELSE b
Min(a, b) == IF a <= b THEN a ELSE b

\* file_handle.write(data) at the handle's position
WriteFile(files, t, n) ==
    IF Exists(files, t.file_path)
    THEN [files EXCEPT ![t.file_path] = Max(@, t.file_handle + n)]
    ELSE files

\* variant of the except clause that leaves the partial file in place
ProcessFailed_keepfile(t, files, exc) ==
    Outcome([close_file(t) EXCEPT !.status = "failed"], files, FALSE, exc)

\* the except clause of process_file_chunk, lines 395-411
ProcessFailed(t, files, exc) ==
    Outcome([close_file(t) EXCEPT !.status = "failed"], RemoveFile(files, t.file_path),
            FALSE, exc)

\* variant of lines 376-393 that leaves the sink open after the final chunk
ProcessWrite_keepopen(t, files, n, final_chunk) ==
    LET written == update_progress([t EXCEPT !.file_handle = @ + n], n)
    IN  IF final_chunk
        THEN Outcome([written EXCEPT !.status = "completed"],
                     WriteFile(files, t, n), TRUE, "completed")
        ELSE Outcome(written, WriteFile(files, t, n), FALSE, "received")

\* lines 376-393: the chunk decrypted to n bytes
ProcessWrite(t, files, n, final_chunk) ==
    LET written == update_progress([t EXCEPT !.file_handle = @ + n], n)
    IN  IF final_chunk
        THEN Outcome([close_file(written) EXCEPT !.status = "completed"],
                     WriteFile(files, t, n), TRUE, "completed")
        ELSE Outcome(written, WriteFile(files, t, n), FALSE, "received")

\* process_file_chunk on a transfer that is in active_transfers.  chunk.ok:
\* base64.b64decode and decrypt_file_chunk return, chunk.len bytes
ProcessChunk(t, files, chunk, final_chunk, opened) ==
    LET t1 == IF t.file_handle = NoHandle THEN open_file(t, files, opened) ELSE t
        f1 == IF t.file_handle = NoHandle THEN FilesAfterOpen(t, files, opened) ELSE files
    IN  IF t.direction # "download" THEN ProcessFailed(t, files, "ValueError")
        ELSE IF t1.file_handle = NoHandle THEN ProcessFailed(t1, f1, "IOError")
        ELSE IF ~chunk.ok THEN ProcessFailed(t1, f1, "DecodeError")
        ELSE ProcessWrite(t1, f1, chunk.len, final_chunk)

\* the except clause of read_file_chunk, lines 481-490
ReadFailed(t, files, exc) ==
    Outcome([close_file(t) EXCEPT !.status = "failed"], files, FALSE, exc)

\* file_handle.seek(offset); file_handle.read(chunk_size): the source file
\* keeps the size it was prepared with
ReadLen(t, offset, chunk_size) == Min(chunk_size, Max(0, t.file_size - offset))

\* variant of final_chunk: next_chunk_pos > transfer.file_size
IsFinalChunk_strict(t, chunk_index, chunk_size) ==
    (chunk_index + 1) * chunk_size > t.file_size

\* final_chunk of lines 465-466
IsFinalChunk(t, chunk_index, chunk_size) == (chunk_index + 1) * chunk_size >= t.file_size

\* variant of lines 437-479 without the test for an empty read
ReadData_noeof(t, files, chunk_index, chunk_size) ==
    LET n == ReadLen(t, chunk_index * chunk_size, chunk_size)
        read == update_progress(t, n)
    IN  IF IsFinalChunk(t, chunk_index, chunk_size)
        THEN Outcome([close_file(read) EXCEPT !.status = "completed"], files, TRUE, "final")
        ELSE Outcome(read, files, FALSE, "chunk")

\* lines 437-479
ReadData(t, files, chunk_index, chunk_size) ==
    LET n == ReadLen(t, chunk_index * chunk_size, chunk_size)
        read == update_progress(t, n)
    IN  IF n = 0 /\ chunk_index > 0
        THEN Outcome([close_file(t) EXCEPT !.status = "completed"], files, TRUE, "eof")
        ELSE IF IsFinalChunk(t, chunk_index, chunk_size)
        THEN Outcome([close_file(read) EXCEPT !.status = "completed"], files, TRUE, "final")
        ELSE Outcome(read, files, FALSE, "chunk")

\* read_file_chunk on a transfer that is in active_transfers
ReadChunk(t, files, chunk_index, chunk_size, opened) ==
    LET t1 == IF t.file_handle = NoHandle THEN open_file(t, files, opened) ELSE t
    IN  IF t.direction # "upload" THEN ReadFailed(t, files, "ValueError")
        ELSE IF t1.file_handle = NoHandle THEN ReadFailed(t1, files, "IOError")
        ELSE ReadData(t1, files, chunk_index, chunk_size)

\* get_transfer_info: the progress info, or None
get_transfer_info(f) == IF f \in DOMAIN active_transfers THEN "info" ELSE None

\* variant of cancel_transfer that sets the status and leaves the handle open
Cancel_keepopen(t, files) ==
    Outcome([t EXCEPT !.status = "canceled"],
            IF t.direction = "download" THEN RemoveFile(files, t.file_path) ELSE files,
            TRUE, "canceled")

\* variant of cancel_transfer that leaves the partial download in place
Cancel_keepfile(t, files) ==
    Outcome([close_file(t) EXCEPT !.status = "canceled"], files, TRUE, "canceled")

\* cancel_transfer on a transfer that is in active_transfers
Cancel(t, files) ==
    Outcome([close_file(t) EXCEPT !.status = "canceled"],
            IF t.direction = "download" THEN RemoveFile(files, t.file_path) ELSE files,
            TRUE, "canceled")

\* the state after a chunk operation or a cancel on file id f
Apply(op, f, r) ==
    /\ active_transfers' = [active_transfers EXCEPT ![f] = r.t]
    /\ fs' = r.fs
    /\ cleanup_tasks' = IF r.sched THEN Schedule(cleanup_tasks, f) ELSE cleanup_tasks
    /\ tev' = TEvent(op, f, r.out)
    /\ UNCHANGED <<transfer_callbacks, next_oid, seen_ids>>

\* the state after read_file_chunk on file id f
ApplyRead(f, chunk_index, chunk_size, r) ==
    /\ active_transfers' = [active_transfers EXCEPT ![f] = r.t]
    /\ fs' = r.fs
    /\ cleanup_tasks' = IF r.sched THEN Schedule(cleanup_tasks, f) ELSE cleanup_tasks
    /\ tev' = IF r.out \in {"chunk", "final"}
               THEN [TEvent("read_file_chunk", f, r.out)
                        EXCEPT !.chunk_index = chunk_index, !.chunk_size = chunk_size]
               ELSE TEvent("read_file_chunk", f, r.out)
    /\ UNCHANGED <<transfer_callbacks, next_oid, seen_ids>>

\* a call on a file id that is not in active_transfers
Unknown(op, f) ==
    /\ tev' = TEvent(op, f, "unknown")
    /\ UNCHANGED <<active_transfers, transfer_callbacks, fs, cleanup_tasks, next_oid,
                   seen_ids>>

process_file_chunk(f, chunk, final_chunk, opened) ==
    IF f \notin DOMAIN active_transfers
    THEN Unknown("process_file_chunk", f)
    ELSE Apply("process_file_chunk", f,
               ProcessChunk(active_transfers[f], fs, chunk, final_chunk, opened))

read_file_chunk(f, chunk_index, chunk_size, opened) ==
    IF f \notin DOMAIN active_transfers
    THEN Unknown("read_file_chunk", f)
    ELSE ApplyRead(f, chunk_index, chunk_size,
                   ReadChunk(active_transfers[f], fs, chunk_index, chunk_size, opened))

cancel_transfer(f) ==
    IF f \notin DOMAIN active_transfers
    THEN Unknown("cancel_transfer", f)
    ELSE Apply("cancel_transfer", f, Cancel(active_transfers[f], fs))

\* _cleanup_transfer(file_id) after its sleep
cleanup_transfer(f) ==
    /\ cleanup_tasks[f] > 0
    /\ cleanup_tasks' = [cleanup_tasks EXCEPT ![f] = @ - 1]
    /\ active_transfers' = [g \in DOMAIN active_transfers \ {f} |-> active_transfers[g]]
    /\ transfer_callbacks' = transfer_callbacks \ {f}
    /\ tev' = TEvent("cleanup", f, IF f \in DOMAIN active_transfers THEN "removed" ELSE "absent")
    /\ UNCHANGED <<fs, next_oid, seen_ids>>

register_transfer_callback(f) ==
    /\ transfer_callbacks' = transfer_callbacks \cup {f}
    /\ tev' = TEvent("register_callback", f, "ok")
    /\ UNCHANGED <<active_transfers, fs, cleanup_tasks, next_oid, seen_ids>>

\* a chunk that decodes and decrypts to len bytes, or one that does not
ChunkInputs == {[ok |-> TRUE, len |-> n] : n \in 0..MaxChunk} \cup {[ok |-> FALSE, len |-> 0]}

\* open() can fail only where a chunk operation opens the file
OpenOutcomes(f) ==
    IF f \in DOMAIN active_transfers /\ active_transfers[f].file_handle = NoHandle
    THEN BOOLEAN ELSE {TRUE}

\* one call into the transfer manager, or one timer expiry
Op(A) ==
    nops < MaxOps /\ nops' = nops + 1 /\ A /\ UNCHANGED <<inflight, crypt, srvVars, clipVars>>

(***************************************************************************)
(* clipboard.py: the sync path (set_clipboard_text), the user copying on   *)
(* the desktop, and the thread that runs _monitor_clipboard.  The thread   *)
(* reads the clipboard at line 82 without the lock and takes the lock at   *)
(* line 85; set_clipboard_text holds the lock for lines 37-38.             *)
(***************************************************************************)
\* marker_copy: "pending" the value a sync write copied is on the clipboard
\* and no poll has read it; "replaced" a local copy of another value took
\* its place before any poll read it; "recopied" the marker's value was then
\* copied locally; "observed" a poll has read that local copy; "none"
\* otherwise
Texts == {"", "a", "b"}

\* current_content.strip() is falsy
Blank(text) == text = ""

CEvent(op, text, called) == [op |-> op, text |-> text, called |-> called]

\* asyncio.get_running_loop() in a thread: uvicorn.run (serve.py:130) runs
\* the server's loop in the main thread; no loop runs in the thread of
\* _monitor_clipboard
RunningLoop(thread) == IF thread = "main" THEN "server_loop" ELSE None

\* the loops that a thread runs
RunningLoops == {"server_loop"}

\* serve.py:57-62: the running loop, or a loop made by new_event_loop()
CallbackLoop(thread) ==
    IF RunningLoop(thread) # None THEN RunningLoop(thread) ELSE "new_loop"

\* on_clipboard_change(text) called in a thread: what it gives to
\* run_coroutine_threadsafe
on_clipboard_change(text, thread) ==
    [msg |-> [type |-> "clipboard_sync", text |-> text, source |-> "linux-server"],
     loop |-> CallbackLoop(thread)]

ClipInit ==
    /\ scheduled = {}
    /\ marker_copy = "none"
    /\ clipboard \in Texts
    /\ clipboard_last_sync = None
    /\ clipboard_callback = FALSE
    /\ should_monitor = FALSE
    /\ mon = "off"
    /\ last_content = ""
    /\ current_content = ""
    /\ clip_src = "user"
    /\ clip_fresh = FALSE
    /\ cur_src = "none"
    /\ cur_fresh = FALSE
    /\ last_suppressed = None
    /\ cev = CEvent("init", None, FALSE)

\* set_clipboard_text(text); copied: pyperclip.copy returned
set_clipboard_text(text, copied) ==
    /\ UNCHANGED scheduled
    /\ marker_copy' = IF copied THEN "pending" ELSE "none"
    /\ clipboard_last_sync' = text
    /\ IF copied
       THEN clipboard' = text /\ clip_src' = "sync" /\ clip_fresh' = TRUE
       ELSE UNCHANGED <<clipboard, clip_src, clip_fresh>>
    /\ cev' = CEvent("set_clipboard_text", text, FALSE)
    /\ UNCHANGED <<clipboard_callback, should_monitor, mon, last_content,
                   current_content, cur_src, cur_fresh, last_suppressed>>

\* the user copies text on the desktop
LocalCopy(text) ==
    /\ UNCHANGED scheduled
    /\ marker_copy' =
          CASE marker_copy = "pending" /\ text # clipboard_last_sync -> "replaced"
            [] marker_copy = "replaced" /\ text = clipboard_last_sync -> "recopied"
            [] marker_copy \in {"recopied", "observed"} /\ text # clipboard_last_sync
                 -> "replaced"
            [] OTHER -> marker_copy
    /\ clipboard' = text
    /\ clip_src' = "user"
    /\ clip_fresh' = TRUE
    /\ cev' = CEvent("local_copy", text, FALSE)
    /\ UNCHANGED <<clipboard_last_sync, clipboard_callback, should_monitor, mon,
                   last_content, current_content, cur_src, cur_fresh, last_suppressed>>

register_clipboard_change_callback ==
    /\ UNCHANGED <<scheduled, marker_copy>>
    /\ clipboard_callback' = TRUE
    /\ cev' = CEvent("register_callback", None, FALSE)
    /\ UNCHANGED <<clipboard, clipboard_last_sync, should_monitor, mon, last_content,
                   current_content, clip_src, clip_fresh, cur_src, cur_fresh,
                   last_suppressed>>

\* get_clipboard_text; got: pyperclip.paste returned
get_clipboard_text(got) == IF got THEN clipboard ELSE ""

\* start_monitoring when no monitoring thread is alive
start_monitoring ==
    /\ UNCHANGED <<scheduled, marker_copy>>
    /\ mon = "off"
    /\ should_monitor' = TRUE
    /\ mon' = "begin"
    /\ cev' = CEvent("start_monitoring", None, FALSE)
    /\ UNCHANGED <<clipboard, clipboard_last_sync, clipboard_callback, last_content,
                   current_content, clip_src, clip_fresh, cur_src, cur_fresh,
                   last_suppressed>>

stop_monitoring ==
    /\ UNCHANGED <<scheduled, marker_copy>>
    /\ should_monitor
    /\ should_monitor' = FALSE
    /\ cev' = CEvent("stop_monitoring", None, FALSE)
    /\ UNCHANGED <<clipboard, clipboard_last_sync, clipboard_callback, mon, last_content,
                   current_content, clip_src, clip_fresh, cur_src, cur_fresh,
                   last_suppressed>>

\* line 77
MonitorBegin(got) ==
    /\ UNCHANGED scheduled
    /\ marker_copy' =
          CASE got /\ marker_copy = "pending" -> "none"
            [] got /\ marker_copy = "recopied" -> "observed"
            [] OTHER -> marker_copy
    /\ mon = "begin"
    /\ last_content' = get_clipboard_text(got)
    /\ clip_fresh' = IF got THEN FALSE ELSE clip_fresh
    /\ mon' = "loop"
    /\ cev' = CEvent("begin", get_clipboard_text(got), FALSE)
    /\ UNCHANGED <<clipboard, clipboard_last_sync, clipboard_callback, should_monitor,
                   current_content, clip_src, cur_src, cur_fresh, last_suppressed>>

\* lines 80-82: the loop test and the read of the clipboard
MonitorRead(got) ==
    /\ UNCHANGED scheduled
    /\ marker_copy' =
          CASE got /\ marker_copy = "pending" -> "none"
            [] got /\ marker_copy = "recopied" -> "observed"
            [] OTHER -> marker_copy
    /\ mon = "loop"
    /\ should_monitor
    /\ current_content' = get_clipboard_text(got)
    /\ cur_src' = IF got THEN clip_src ELSE "none"
    /\ cur_fresh' = (got /\ clip_fresh)
    /\ clip_fresh' = IF got THEN FALSE ELSE clip_fresh
    /\ mon' = "check"
    /\ cev' = CEvent("read", get_clipboard_text(got), FALSE)
    /\ UNCHANGED <<clipboard, clipboard_last_sync, clipboard_callback, should_monitor,
                   last_content, clip_src, last_suppressed>>

\* the test of lines 86-88
Notifies(current, last, marker) ==
    current # last /\ current # marker /\ ~Blank(current)

\* lines 85-118, under the lock, and the sleep of line 124
MonitorCheck ==
    /\ mon = "check"
    /\ marker_copy' =
          IF clipboard_last_sync = current_content THEN "none" ELSE marker_copy
    /\ scheduled' =
          IF Notifies(current_content, last_content, clipboard_last_sync)
                /\ clipboard_callback
          THEN scheduled \cup {on_clipboard_change(current_content, "monitor")}
          ELSE scheduled
    /\ cev' = CEvent("check", current_content,
                     Notifies(current_content, last_content, clipboard_last_sync)
                        /\ clipboard_callback)
    /\ clipboard_last_sync' =
          IF clipboard_last_sync = current_content THEN None ELSE clipboard_last_sync
    /\ last_suppressed' =
          IF clipboard_last_sync = current_content THEN current_content
          ELSE last_suppressed
    /\ last_content' = current_content
    /\ mon' = "loop"
    /\ UNCHANGED <<clipboard, clipboard_callback, should_monitor, current_content,
                   clip_src, clip_fresh, cur_src, cur_fresh>>

\* line 80 with _should_monitor false: the thread ends
MonitorExit ==
    /\ UNCHANGED <<scheduled, marker_copy>>
    /\ mon = "loop"
    /\ ~should_monitor
    /\ mon' = "off"
    /\ cev' = CEvent("exit", None, FALSE)
    /\ UNCHANGED <<clipboard, clipboard_last_sync, clipboard_callback, should_monitor,
                   last_content, current_content, clip_src, clip_fresh, cur_src,
                   cur_fresh, last_suppressed>>

\* under Spec and SpecTransfer nothing touches the clipboard
ClipIdle == ClipInit /\ clipboard = ""

Init == SrvInit /\ XferInit /\ ClipIdle

Next ==
    \/ \E w \in Conns : Connect(w) /\ UNCHANGED <<xferVars, clipVars>>
    \/ \E w \in Conns : Disconnect(w) /\ UNCHANGED <<xferVars, clipVars>>
    \/ \E w \in Conns, f \in Frames : Receive(w, f) /\ UNCHANGED <<xferVars, clipVars>>
    \/ \E w \in Conns : PairingDisconnect(w) /\ UNCHANGED <<xferVars, clipVars>>
    \/ \E w \in Conns : PairingConnect(w) /\ UNCHANGED <<xferVars, clipVars>>
    \/ \E w \in Conns : BroadcastResume(w) /\ UNCHANGED <<xferVars, clipVars>>

\* the handlers of main.py call nothing of filetransfer.py (lines 277-283 are
\* stubs), so under Spec the source file has one size
XferIdle == XferInit /\ fs[SavePath("src.bin", 0)] = MaxSize

InitServer == SrvInit /\ XferIdle /\ ClipIdle

Spec == InitServer /\ [][Next]_vars

NextTransfer ==
    \/ \E p \in UploadPaths : Op(prepare_upload_transfer(p))
    \/ \E f \in FileIds \cup {None}, nm \in FileNames, sz \in 0..MaxSize, o \in BOOLEAN :
          Op(prepare_download_transfer(f, nm, sz, o))
    \/ \E f \in FileIds, c \in ChunkInputs, fin \in BOOLEAN :
          \E o \in OpenOutcomes(f) : Op(process_file_chunk(f, c, fin, o))
    \/ \E f \in FileIds, i \in 0..MaxIndex, cs \in 1..MaxChunk :
          \E o \in OpenOutcomes(f) : Op(read_file_chunk(f, i, cs, o))
    \/ \E f \in FileIds : Op(cancel_transfer(f))
    \/ \E f \in FileIds : Op(cleanup_transfer(f))
    \/ \E f \in FileIds : Op(register_transfer_callback(f))

SpecTransfer == Init /\ [][NextTransfer]_vars

\* a _cleanup_transfer task whose sleep is over runs: the event loop runs
\* every task it was given, however many calls the clients make
TimerExpiry(f) == cleanup_transfer(f) /\ UNCHANGED <<nops, inflight, crypt, srvVars, clipVars>>

\* one call into the transfer manager, in runs of at most MaxFairOps calls
FairOp(A) ==
    nops < MaxFairOps /\ nops' = nops + 1 /\ A /\ UNCHANGED <<inflight, crypt, srvVars, clipVars>>

NextTransferFair ==
    \/ \E p \in UploadPaths : FairOp(prepare_upload_transfer(p))
    \/ \E f \in FileIds \cup {None}, nm \in FileNames, sz \in 0..MaxSize, o \in BOOLEAN :
          FairOp(prepare_download_transfer(f, nm, sz, o))
    \/ \E f \in FileIds, c \in ChunkInputs, fin \in BOOLEAN :
          \E o \in OpenOutcomes(f) : FairOp(process_file_chunk(f, c, fin, o))
    \/ \E f \in FileIds, i \in 0..MaxIndex, cs \in 1..MaxChunk :
          \E o \in OpenOutcomes(f) : FairOp(read_file_chunk(f, i, cs, o))
    \/ \E f \in FileIds : FairOp(cancel_transfer(f))
    \/ \E f \in FileIds : FairOp(register_transfer_callback(f))
    \/ \E f \in FileIds : TimerExpiry(f)

SpecTransferFair ==
    Init /\ [][NextTransferFair]_vars /\ \A f \in FileIds : WF_vars(TimerExpiry(f))

(***************************************************************************)
(* process_file_chunk statement by statement, beside cancel_transfer.  A   *)
(* coroutine of the event loop gives way to another one only at an await.  *)
(***************************************************************************)
\* variant in which process_file_chunk awaits after file_handle.write
AwaitPoints_written == {"written"}

\* the positions of process_file_chunk at which it awaits (lines 360-393
\* hold no await; create_task at line 385 does not suspend)
AwaitPoints == {}

\* the event loop can run another coroutine
LoopFree == inflight.at = "idle" \/ inflight.at \in AwaitPoints

\* lines 360-377 on a download whose sink is or gets opened and whose chunk
\* decodes: up to transfer.file_handle.write(decrypted_data)
ChunkWrite(f, chunk, final_chunk, opened) ==
    /\ inflight.at = "idle"
    /\ nops < MaxFairOps
    /\ nops' = nops + 1
    /\ f \in DOMAIN active_transfers
    /\ LET t  == active_transfers[f]
           t1 == IF t.file_handle = NoHandle THEN open_file(t, fs, opened) ELSE t
           f1 == IF t.file_handle = NoHandle THEN FilesAfterOpen(t, fs, opened) ELSE fs
       IN  /\ t.direction = "download"
           /\ t1.file_handle # NoHandle
           /\ chunk.ok
           /\ active_transfers' =
                 [active_transfers EXCEPT ![f] = [t1 EXCEPT !.file_handle = @ + chunk.len]]
           /\ fs' = WriteFile(f1, t1, chunk.len)
    /\ inflight' = [file_id |-> f, n |-> chunk.len, final |-> final_chunk,
                    at |-> "written"]
    /\ UNCHANGED <<transfer_callbacks, cleanup_tasks, next_oid, seen_ids, tev,
                   crypt, srvVars, clipVars>>

\* line 378: transfer.update_progress(len(decrypted_data)) on the object the
\* call holds
ChunkProgress ==
    /\ inflight.at = "written"
    /\ active_transfers' =
          IF inflight.file_id \in DOMAIN active_transfers
          THEN [active_transfers EXCEPT
                   ![inflight.file_id] = update_progress(@, inflight.n)]
          ELSE active_transfers
    /\ inflight' = [inflight EXCEPT !.at = "progressed"]
    /\ UNCHANGED <<transfer_callbacks, fs, cleanup_tasks, next_oid, seen_ids, nops,
                   tev, crypt, srvVars, clipVars>>

\* lines 380-393: the final chunk closes and completes, and the call returns
ChunkFinish ==
    /\ inflight.at = "progressed"
    /\ active_transfers' =
          IF inflight.final /\ inflight.file_id \in DOMAIN active_transfers
          THEN [active_transfers EXCEPT
                   ![inflight.file_id] = [close_file(@) EXCEPT !.status = "completed"]]
          ELSE active_transfers
    /\ cleanup_tasks' =
          IF inflight.final THEN Schedule(cleanup_tasks, inflight.file_id)
          ELSE cleanup_tasks
    /\ tev' = TEvent("process_file_chunk", inflight.file_id,
                     IF inflight.final THEN "completed" ELSE "received")
    /\ inflight' = NoCall
    /\ UNCHANGED <<transfer_callbacks, fs, next_oid, seen_ids, nops, crypt, srvVars, clipVars>>

\* a process_file_chunk call that raises: lines 360-374 and the except clause
ChunkRaise(f, chunk, final_chunk, opened) ==
    /\ LoopFree
    /\ f \in DOMAIN active_transfers =>
          ProcessChunk(active_transfers[f], fs, chunk, final_chunk, opened).out
             \notin {"received", "completed"}
    /\ FairOp(process_file_chunk(f, chunk, final_chunk, opened))

NextChunk ==
    \/ \E f \in FileIds, nm \in FileNames, sz \in 1..MaxSize, o \in BOOLEAN :
          LoopFree /\ FairOp(prepare_download_transfer(f, nm, sz, o))
    \/ \E f \in FileIds, c \in ChunkInputs, fin \in BOOLEAN :
          \E o \in OpenOutcomes(f) : ChunkWrite(f, c, fin, o)
    \/ ChunkProgress
    \/ ChunkFinish
    \/ \E f \in FileIds, c \in ChunkInputs, fin \in BOOLEAN :
          \E o \in OpenOutcomes(f) : ChunkRaise(f, c, fin, o)
    \/ \E f \in FileIds : LoopFree /\ FairOp(cancel_transfer(f))
    \/ \E f \in FileIds : LoopFree /\ FairOp(cleanup_transfer(f))

SpecChunk == Init /\ [][NextChunk]_vars

(***************************************************************************)
(* The round trip of the chunk cipher: encrypt_file_chunk, then            *)
(* decrypt_file_chunk of its result with the same key and iv.              *)
(***************************************************************************)
InitCrypto ==
    /\ SrvInit /\ XferTables /\ fs[SavePath("src.bin", 0)] = MaxSize /\ ClipIdle
    /\ \E n \in 0..MaxChunkLen, fill \in FillBytes, last \in LastBytes,
          k \in Seeds, v \in Seeds :
          crypt = CryptRun(ChunkOf(n, fill, last), KeyOf(k), IvOf(v))

EncryptStep ==
    /\ crypt.at = "input"
    /\ crypt' = [crypt EXCEPT
                    !.encrypted = encrypt_file_chunk(crypt.chunk, crypt.key, crypt.iv),
                    !.at = "encrypted"]
    /\ UNCHANGED <<active_transfers, transfer_callbacks, fs, cleanup_tasks, next_oid,
                   seen_ids, nops, tev, inflight, srvVars, clipVars>>

DecryptStep ==
    /\ crypt.at = "encrypted"
    /\ crypt' = [crypt EXCEPT
                    !.raised = DecryptRaises(crypt.encrypted),
                    !.decrypted = IF DecryptRaises(crypt.encrypted) THEN <<>>
                                  ELSE decrypt_file_chunk(crypt.encrypted, crypt.key, crypt.iv),
                    !.at = "decrypted"]
    /\ UNCHANGED <<active_transfers, transfer_callbacks, fs, cleanup_tasks, next_oid,
                   seen_ids, nops, tev, inflight, srvVars, clipVars>>

NextCrypto == EncryptStep \/ DecryptStep

SpecCrypto == InitCrypto /\ [][NextCrypto]_vars

InitClipboard == SrvInit /\ XferIdle /\ ClipInit

NextClipboard ==
    \/ \E text \in Texts, copied \in BOOLEAN :
          set_clipboard_text(text, copied) /\ UNCHANGED <<srvVars, xferVars>>
    \/ \E text \in Texts : LocalCopy(text) /\ UNCHANGED <<srvVars, xferVars>>
    \/ register_clipboard_change_callback /\ UNCHANGED <<srvVars, xferVars>>
    \/ start_monitoring /\ UNCHANGED <<srvVars, xferVars>>
    \/ stop_monitoring /\ UNCHANGED <<srvVars, xferVars>>
    \/ \E got \in BOOLEAN : MonitorBegin(got) /\ UNCHANGED <<srvVars, xferVars>>
    \/ \E got \in BOOLEAN : MonitorRead(got) /\ UNCHANGED <<srvVars, xferVars>>
    \/ MonitorCheck /\ UNCHANGED <<srvVars, xferVars>>
    \/ MonitorExit /\ UNCHANGED <<srvVars, xferVars>>

SpecClipboard == InitClipboard /\ [][NextClipboard]_vars

(***************************************************************************)
(* Claims about the dispatcher (checked under Spec)                        *)
(***************************************************************************)
\* the last step handled a pairing_request
PairingHandled(e) == e.op = "receive" /\ e.kind = "object" /\ e.type = "pairing_request"

\* C1: once a pairing_request has succeeded with a code, every later
\* pairing_request that carries that code is answered with a failed
\* pairing_response and leaves the paired-device table as it was.
C1_StaleCodeFails ==
    [][(PairingHandled(ev') /\ ev'.code \in used_codes)
        => /\ ev'.out = "pairing_failed"
           /\ sent' = {[to |-> ev'.conn, msg |-> PairingFailed]}
           /\ PAIRED_DEVICES' = PAIRED_DEVICES]_vars

\* C2: two pairing_requests with the same valid code from two device ids on
\* two connections, the second handled while the first is still in its
\* handler, both succeed and both devices are in the table; a pairing_request
\* with that code handled after them fails.
C2_ConcurrentPairThenStale ==
    [][/\ (PairingHandled(ev') /\ ev'.out = "pairing_success"
              /\ raced_codes' # raced_codes)
          => \A v \in Conns :
                pc'[v] \in {"pair_disconnect", "pair_accept"}
                   => hl'[v].device_id \in DOMAIN PAIRED_DEVICES'
       /\ (PairingHandled(ev') /\ ev'.code \in raced_codes)
          => ev'.out \in {"pairing_failed", "pairing_failed_send_raised"}]_vars

\* C3: a pairing_request whose code is not the current pairing code leaves
\* the paired-device table, its file and the pairing code unchanged; its
\* answer, when send_text returns, is a failed pairing_response that does not
\* carry the pairing code, and the connection table is unchanged.
C3_WrongCodeNoMutation ==
    [][(PairingHandled(ev') /\ ev'.code # PAIRING_CODE)
        => /\ PAIRED_DEVICES' = PAIRED_DEVICES
           /\ paired_devices_file' = paired_devices_file
           /\ PAIRING_CODE' = PAIRING_CODE
           /\ pairing_code_file' = pairing_code_file
           /\ ev'.out \in {"pairing_failed", "pairing_failed_send_raised"}
           /\ ev'.out = "pairing_failed"
                 => /\ active_connections' = active_connections
                    /\ \E m \in {x.msg : x \in sent'} :
                          /\ sent' = {[to |-> ev'.conn, msg |-> m]}
                          /\ m.type = "pairing_response"
                          /\ m.status = "failed"
                          /\ PAIRING_CODE \notin MsgValues(m)]_vars

\* a wrong code was refused while a device was paired and a connection was
\* registered
C3_Witness ==
    /\ PairingHandled(ev)
    /\ ev.code # PAIRING_CODE
    /\ ev.out = "pairing_failed"
    /\ DOMAIN PAIRED_DEVICES # {}
    /\ sent = {[to |-> ev.conn, msg |-> PairingFailed]}
    /\ KeysOf(ev.conn) # {}

C10_BadFrameIgnored ==
    (ev.op = "receive" /\ ev.kind \in {"garbage", "nonobject"})
        => /\ sent = {}
           /\ pc[ev.conn] = "recv"
           /\ KeysOf(ev.conn) # {}

(***************************************************************************)
(* Claims about the transfer manager (checked under SpecTransfer)          *)
(***************************************************************************)
\* file ids whose FileTransfer object is the same before and after the step
SameTransfer ==
    {f \in DOMAIN active_transfers \cap DOMAIN active_transfers' :
        active_transfers'[f].oid = active_transfers[f].oid}

ChunkOrCancel == {"read_file_chunk", "process_file_chunk", "cancel_transfer"}

\* C4: once a transfer is completed, failed or canceled, a read_chunk,
\* write_chunk or cancel call for its file id changes neither its status nor
\* its bytes_transferred and does not reopen its file.
C4_TerminalIsFinal ==
    [][\A f \in SameTransfer :
          (Terminal(active_transfers[f].status) /\ tev'.op \in ChunkOrCancel
              /\ tev'.file_id = f)
          => /\ active_transfers'[f].status = active_transfers[f].status
             /\ active_transfers'[f].bytes_transferred = active_transfers[f].bytes_transferred
             /\ active_transfers'[f].file_handle = NoHandle]_vars

\* C5: every transfer has 0 <= bytes_transferred <= size.
C5_BytesWithinSize ==
    \A f \in DOMAIN active_transfers :
        /\ 0 <= active_transfers[f].bytes_transferred
        /\ active_transfers[f].bytes_transferred <= active_transfers[f].file_size

\* C6: no step lowers the bytes_transferred of a transfer that is in the
\* table before and after it.
C6_BytesNeverDecrease ==
    [][\A f \in SameTransfer :
          active_transfers'[f].bytes_transferred >= active_transfers[f].bytes_transferred]_vars

\* a transfer that had made progress was canceled or has failed, and a later
\* chunk was counted on a transfer that had progress already
C6_Witness ==
    /\ \E f \in DOMAIN active_transfers :
          /\ active_transfers[f].bytes_transferred > 0
          /\ active_transfers[f].status \in {"failed", "canceled"}
    /\ \E f \in DOMAIN active_transfers :
          /\ active_transfers[f].bytes_transferred > MaxChunk
          /\ tev.op \in {"read_file_chunk", "process_file_chunk"}
          /\ tev.file_id = f

(***************************************************************************)
(* Claims about the clipboard (checked under SpecClipboard)                *)
(***************************************************************************)
\* C11: the first poll that observes a value the sync path put on the
\* clipboard does not invoke the change callback and leaves the marker
\* cleared.
C11_SyncWriteSuppressed ==
    [][(cev'.op = "check" /\ cur_fresh /\ cur_src = "sync")
        => /\ ~cev'.called
           /\ clipboard_last_sync' = None]_vars

\* C12: once a poll has matched the marker on a value and the marker is
\* cleared, the first poll that observes a later local copy of that same
\* (non-blank) value invokes the registered change callback.
C12_SameValueCopiedAgain ==
    [][(/\ cev'.op = "check"
        /\ cur_fresh /\ cur_src = "user"
        /\ clipboard_last_sync = None
        /\ current_content = last_suppressed
        /\ ~Blank(current_content)
        /\ clipboard_callback)
        => cev'.called]_vars

(***************************************************************************)
(* Claims about the routing of frames (checked under Spec)                 *)
(***************************************************************************)
\* C17: a clipboard_sync frame whose device_id is in the paired-device table
\* leaves the last-sync marker and the clipboard equal to the frame's text.
C17_ClipboardSyncApplied ==
    [][\A w \in Conns, f \in ClipboardFrames :
          (Receive(w, f) /\ f.device_id \in DOMAIN PAIRED_DEVICES)
          => /\ clipboard_last_sync' = f.text
             /\ clipboard' = f.text]_vars

\* C18: the step that handles an admin_request frame sends a frame to the
\* connection the request came from.
C18_AdminRequestAnswered ==
    (ev.op = "receive" /\ ev.kind = "object" /\ ev.type = "admin_request")
        => \E x \in sent : x.to = ev.conn

\* C19: after a file_transfer_init frame is handled, the active-transfer
\* table has a FileTransfer under the frame's file_id; a file_transfer_chunk
\* frame for a file_id in the table raises that transfer's bytes_transferred.
C19_TransferFramesRouted ==
    [][\A w \in Conns, f \in TransferFrames :
          /\ (Receive(w, f) /\ f.type = "file_transfer_init")
                => f.file_id \in DOMAIN active_transfers'
          /\ (Receive(w, f) /\ f.type = "file_transfer_chunk"
                 /\ f.file_id \in DOMAIN active_transfers)
                => /\ f.file_id \in DOMAIN active_transfers'
                   /\ active_transfers'[f.file_id].bytes_transferred
                         > active_transfers[f.file_id].bytes_transferred]_vars

\* C20: a frame (a JSON object) whose type has no branch in the dispatcher
\* is dropped: the step sends nothing, changes neither the paired devices,
\* the pairing code, their files, the connection table nor the transfers,
\* and leaves the connection in its receive loop.
C20_UnknownTypeDropped ==
    [][(ev'.op = "receive" /\ ev'.kind = "object" /\ ev'.type \notin DispatchedTypes)
        => /\ sent' = {}
           /\ PAIRED_DEVICES' = PAIRED_DEVICES
           /\ paired_devices_file' = paired_devices_file
           /\ PAIRING_CODE' = PAIRING_CODE
           /\ pairing_code_file' = pairing_code_file
           /\ active_connections' = active_connections
           /\ active_transfers' = active_transfers
           /\ transfer_callbacks' = transfer_callbacks
           /\ pc'[ev'.conn] = "recv"]_vars

\* a frame of an unknown type was dropped on a connection that is paired and
\* registered, after other frames had been handled
C20_Witness ==
    /\ ev.op = "receive" /\ ev.kind = "object" /\ ev.type = "bogus"
    /\ ev.out = "unknown_type"
    /\ DOMAIN PAIRED_DEVICES # {}
    /\ KeysOf(ev.conn) # {}
    /\ pc[ev.conn] = "recv"
    /\ now >= 2

(***************************************************************************)
(* Claims about the cleanup of transfers (checked under SpecTransferFair,  *)
(* C14 under SpecTransfer)                                                 *)
(***************************************************************************)
\* C13: every transfer that is completed, failed or canceled is eventually
\* out of the active-transfer table, and no callback is registered for its
\* file id then.
C13_TerminalEventuallyRemoved ==
    \A f \in FileIds :
        (f \in DOMAIN active_transfers /\ Terminal(active_transfers[f].status))
            ~> (f \notin DOMAIN active_transfers /\ f \notin transfer_callbacks)

\* C14: a file id leaves the active-transfer table only when the status of
\* its record is completed, failed or canceled.
C14_RemovedOnlyWhenTerminal ==
    [][\A f \in DOMAIN active_transfers :
          f \notin DOMAIN active_transfers' => Terminal(active_transfers[f].status)]_vars

LastIndex(size, chunk_size) == (size + chunk_size - 1) \div chunk_size - 1

\* C16: a read_file_chunk call on an upload of size > 0 at an index up to
\* ceil(size / chunk_size) - 1 returns final_chunk = true exactly when the
\* index is ceil(size / chunk_size) - 1, and leaves the transfer completed
\* exactly then.  A sequential read at indices 0, 1, 2, ... is a run of such
\* calls, so its first final chunk, and the completion, come at that index.
C16_FinalAtLastIndex ==
    [][\A f \in SameTransfer :
          (/\ tev'.op = "read_file_chunk" /\ tev'.file_id = f
           /\ tev'.out \in {"chunk", "final"}
           /\ active_transfers[f].file_size > 0
           /\ tev'.chunk_index
                 <= LastIndex(active_transfers[f].file_size, tev'.chunk_size))
          => LET last == LastIndex(active_transfers[f].file_size, tev'.chunk_size)
             IN  /\ (tev'.out = "final") <=> (tev'.chunk_index = last)
                 /\ (active_transfers'[f].status = "completed")
                       <=> (tev'.chunk_index = last)
                 /\ tev'.chunk_index < last
                       => active_transfers'[f].status = "in_progress"]_vars

\* an upload of two bytes or more, the only transfer there has been, was read
\* one byte at a time from index 0 and completed with its last byte
C16_Witness ==
    \E f \in DOMAIN active_transfers :
        /\ tev.op = "read_file_chunk" /\ tev.file_id = f /\ tev.out = "final"
        /\ tev.chunk_size = 1
        /\ active_transfers[f].direction = "upload"
        /\ active_transfers[f].file_size >= 2
        /\ tev.chunk_index = active_transfers[f].file_size - 1
        /\ active_transfers[f].bytes_transferred = active_transfers[f].file_size
        /\ active_transfers[f].status = "completed"
        /\ next_oid = 1
        /\ nops = active_transfers[f].file_size + 1
        /\ cleanup_tasks[f] = 1


(***************************************************************************)
(* The receive loop and the connection table                               *)
(***************************************************************************)
\* C21: a connection takes its next frame only when its coroutine is at
\* receive_text with no handler of an earlier frame of it pending, so its
\* frames are handled one at a time in the order receive_text returns them;
\* a connection may take a frame while a handler of another one is suspended
C21_FramesOneAtATime ==
    [][now' # now =>
          /\ ev'.op = "receive"
          /\ pc[ev'.conn] = "recv"
          /\ hl[ev'.conn] = NoLocals]_vars

\* a frame was taken on one connection while the handler of another
\* connection's frame was suspended at an await
C21_Witness ==
    /\ ev.op = "receive"
    /\ \E w \in Conns \ {ev.conn} : pc[w] \notin {"new", "recv", "ended"}

\* C22: the id connect() returns is the key it registered the connection
\* under, for every websocket and every device_id (none, paired, unpaired)
C22_ReturnedIdIsKey ==
    \A w \in Conns : \A did \in DeviceIds \cup {None} :
        ConnectReturn(w, did) = ConnectKey(PAIRED_DEVICES, w, did)

\* C23: disconnect(k) leaves k unbound, leaves every other binding as it was
\* and in its place, changes nothing when k is not bound (so a second call
\* changes nothing); checked on the disconnect an ending receive loop makes
C23_DisconnectRemovesOne ==
    [][ev'.op = "disconnect" =>
          LET k  == connection_id[ev'.conn]
              d  == active_connections
              d1 == active_connections'
          IN  /\ k \notin DictKeys(d1)
              /\ d1 = SelectSeq(d, LAMBDA e : e.key # k)
              /\ disconnect(d1, k) = d1
              /\ k \notin DictKeys(d) => d1 = d]_vars

\* a receive loop ended while another connection was bound: its binding went
\* and the other one stayed
C23_Witness ==
    /\ ev.op = "disconnect"
    /\ connection_id[ev.conn] \notin DictKeys(active_connections)
    /\ active_connections # <<>>

\* C24: when send_text raises in broadcast the table is left as it was (the
\* failing connection stays bound), the send is not made again, and the
\* broadcast goes on to the next binding other than exclude when one is left
C24_SendFailureSkipped ==
    [][\A w \in Conns :
          (BroadcastResume(w) /\ sent' = {}) =>
            /\ active_connections' = active_connections
            /\ LET p == NextSendPos(active_connections, hl[w].pos, hl[w].exclude)
               IN  p # 0 =>
                     /\ pc'[w] = "bcast"
                     /\ hl'[w].pos = p
                     /\ hl'[w].msg = hl[w].msg
                     /\ hl'[w].target = active_connections[p].ws]_vars


C28_FinalChunkCompletes ==
    [][(tev'.op = "process_file_chunk" /\ tev'.file_id \in DOMAIN active_transfers
          /\ active_transfers[tev'.file_id].direction = "download"
          /\ active_transfers[tev'.file_id].status = "in_progress"
          /\ tev'.out \in {"received", "completed"}) =>
            LET f  == tev'.file_id
                t  == active_transfers[f]
                t1 == active_transfers'[f]
                n  == t1.bytes_transferred - t.bytes_transferred
            IN  /\ n >= 0
                /\ Exists(fs, t.file_path) =>
                      fs'[t.file_path] = Max(fs[t.file_path], t.file_handle + n)
                /\ IF tev'.out = "completed"
                   THEN /\ t1.status = "completed"
                        /\ t1.file_handle = NoHandle
                        /\ cleanup_tasks'[f] = cleanup_tasks[f] + 1
                   ELSE /\ t1.status = "in_progress"
                        /\ t1.file_handle = t.file_handle + n
                        /\ cleanup_tasks' = cleanup_tasks]_vars

\* a download took a chunk that was not final and then its final chunk
C28_Witness ==
    /\ tev.op = "process_file_chunk"
    /\ tev.out = "completed"
    /\ active_transfers[tev.file_id].status = "completed"
    /\ active_transfers[tev.file_id].bytes_transferred = MaxSize
    /\ fs[active_transfers[tev.file_id].file_path] = MaxSize
    /\ cleanup_tasks[tev.file_id] = 1

\* C29: read_file_chunk on an upload at an index above 0 whose offset is at
\* or past the end of the file returns the empty final chunk: the upload is
\* completed, its source closed, a cleanup task created, and
\* bytes_transferred is what it was.  Stated on every read of an upload
\* whose source is or gets opened: one that returned data was at index 0 or
\* at an offset before the end, every other one is the empty final chunk
C29_ReadPastEnd ==
    [][(tev'.op = "read_file_chunk" /\ tev'.file_id \in DOMAIN active_transfers
          /\ active_transfers[tev'.file_id].direction = "upload"
          /\ tev'.out # "IOError") =>
            LET f  == tev'.file_id
                t  == active_transfers[f]
                t1 == active_transfers'[f]
            IN  IF tev'.out \in {"chunk", "final"}
                THEN \/ tev'.chunk_index = 0
                     \/ tev'.chunk_index * tev'.chunk_size < t.file_size
                ELSE /\ tev'.out = "eof"
                     /\ t1.status = "completed"
                     /\ t1.file_handle = NoHandle
                     /\ t1.bytes_transferred = t.bytes_transferred
                     /\ cleanup_tasks'[f] = cleanup_tasks[f] + 1]_vars

\* an upload that had read all its data was read again past the end
C29_Witness ==
    /\ tev.op = "read_file_chunk"
    /\ tev.out = "eof"
    /\ active_transfers[tev.file_id].status = "completed"
    /\ active_transfers[tev.file_id].bytes_transferred =
          active_transfers[tev.file_id].file_size
    /\ active_transfers[tev.file_id].file_size > 0


C27_FirstFreeSavePath ==
    [][tev'.op = "prepare_download" =>
          /\ tev'.out = "ready" =>
                LET f  == tev'.file_id
                    t1 == active_transfers'[f]
                    p  == t1.file_path
                IN  /\ ~Exists(fs, p)
                    /\ p.name = t1.file_name
                    /\ \A k \in 0..(p.n - 1) : Exists(fs, SavePath(p.name, k))
                    /\ fs' = [fs EXCEPT ![p] = 0]
                    /\ \A g \in DOMAIN active_transfers \ {f} :
                          Exists(fs, active_transfers[g].file_path) =>
                             active_transfers[g].file_path # p
          /\ tev'.out = "IOError" =>
                active_transfers' = active_transfers /\ fs' = fs]_vars

\* a second download of the same name was prepared while the file of the
\* first was there, and got the suffix (1)
C27_Witness ==
    /\ tev.op = "prepare_download"
    /\ tev.out = "ready"
    /\ active_transfers[tev.file_id].file_path.n = 1
    /\ \E g \in DOMAIN active_transfers \ {tev.file_id} :
          /\ active_transfers[g].file_name = active_transfers[tev.file_id].file_name
          /\ active_transfers[g].file_path.n = 0
          /\ Exists(fs, active_transfers[g].file_path)

\* C27 as stated: any two downloads in the table have distinct save paths
C27_DistinctSavePaths ==
    \A f \in DOMAIN active_transfers : \A g \in DOMAIN active_transfers \ {f} :
        (active_transfers[f].direction = "download"
           /\ active_transfers[g].direction = "download") =>
              active_transfers[f].file_path # active_transfers[g].file_path


(***************************************************************************)
(* The bridge from the clipboard thread to the broadcast                   *)
(***************************************************************************)
\* C30: every clipboard_sync broadcast that the change callback creates is
\* scheduled on a loop that runs, so that it is eventually sent to the
\* active connections
C30_ChangeReachesBroadcast ==
    \A c \in scheduled : c.loop \in RunningLoops


(***************************************************************************)
(* Overlapping connection contexts                                         *)
(***************************************************************************)
\* C31: while a broadcast is in the middle of its pass over the connection
\* table (suspended at a send), no connect or disconnect of another
\* connection changes the table
C31_TableStableDuringBroadcast ==
    [][(\E w \in Conns : pc[w] = "bcast") =>
          active_connections' = active_connections]_vars


(***************************************************************************)
(* The transfer table and the records in it                                *)
(***************************************************************************)
\* C33: every file id that has a callback registered has a record in the
\* active-transfer table
C33_CallbackHasTransfer ==
    transfer_callbacks \subseteq DOMAIN active_transfers

\* C35: a process_file_chunk that names an upload, or a read_file_chunk that
\* names a download, raises and leaves the record and the files as they were
C35_WrongDirectionUntouched ==
    [][\A f \in DOMAIN active_transfers :
          (/\ tev'.file_id = f
           /\ \/ tev'.op = "process_file_chunk" /\ active_transfers[f].direction = "upload"
              \/ tev'.op = "read_file_chunk" /\ active_transfers[f].direction = "download")
          => /\ tev'.out = "ValueError"
             /\ active_transfers'[f] = active_transfers[f]
             /\ fs' = fs]_vars

C39_HandleOnlyInProgress ==
    \A f \in DOMAIN active_transfers :
        active_transfers[f].file_handle # NoHandle
            => active_transfers[f].status = "in_progress"

\* a download that had its handle open and had received data was canceled
C39_Witness ==
    /\ tev.op = "cancel_transfer"
    /\ tev.file_id \in DOMAIN active_transfers
    /\ active_transfers[tev.file_id].direction = "download"
    /\ active_transfers[tev.file_id].status = "canceled"
    /\ active_transfers[tev.file_id].bytes_transferred > 0
    /\ active_transfers[tev.file_id].file_handle = NoHandle

\* C40: prepare_download_transfer with a file id that is in the table leaves
\* the record of that id as it was
C40_PrepareKeepsExisting ==
    [][\A f \in DOMAIN active_transfers :
          (tev'.op = "prepare_download" /\ tev'.file_id = f)
          => active_transfers'[f] = active_transfers[f]]_vars


(***************************************************************************)
(* The marker under interleavings of the sync path, the user and the poll  *)
(***************************************************************************)
\* C36: the change callback is never invoked with a value that the poll
\* read from the clipboard after the sync path had put it there
C36_CallbackNeverSyncValue ==
    [][(cev'.op = "check" /\ cev'.called) => cur_src # "sync"]_vars

C32_CancelBetweenChunks ==
    inflight.at # "idle" =>
        /\ inflight.file_id \in DOMAIN active_transfers
        /\ active_transfers[inflight.file_id].status = "in_progress"
        /\ active_transfers[inflight.file_id].file_handle # NoHandle
        /\ inflight.at = "progressed" =>
              active_transfers[inflight.file_id].bytes_transferred >= inflight.n

\* a chunk was written and counted, the call returned, and then the
\* transfer was canceled
C32_Witness ==
    /\ inflight.at = "idle"
    /\ tev.op = "cancel_transfer"
    /\ tev.file_id \in DOMAIN active_transfers
    /\ active_transfers[tev.file_id].status = "canceled"
    /\ active_transfers[tev.file_id].bytes_transferred > 0
    /\ active_transfers[tev.file_id].file_handle = NoHandle

\* C34: decrypt_file_chunk(encrypt_file_chunk(chunk, key, iv), key, iv) is
\* chunk, for the empty chunk and chunks of a whole number of blocks too,
\* under every 32-byte key and 16-byte iv: the decryption returns, and
\* returns the chunk that was encrypted.
C34_RoundTrip ==
    crypt.at = "decrypted" => ~crypt.raised /\ crypt.decrypted = crypt.chunk

\* a chunk of one whole block that ends like a padding has gone through
\* both calls, its ciphertext a block longer than it and unlike its padding
C34_Witness ==
    /\ crypt.at = "decrypted"
    /\ Len(crypt.chunk) = BLOCK_SIZE
    /\ PaddingValid(crypt.chunk)
    /\ Len(crypt.key) = KEY_SIZE /\ Len(crypt.iv) = IV_SIZE
    /\ Len(crypt.encrypted) = 2 * BLOCK_SIZE
    /\ crypt.encrypted # PKCS7Pad(crypt.chunk)
    /\ crypt.decrypted = crypt.chunk

====
